---- MODULE Spec2Model ----
(***************************************************************************)
(* Model of leetcodeprofiletracker/leetcodeprofile.py: the identity        *)
(* validator, the resource client (_request), the per-identity aggregator  *)
(* (fetch_user_data), the thread-pool batch step of main and rank_users.   *)
(***************************************************************************)
EXTENDS Integers, Sequences, FiniteSets, TLC

(***************************************************************************)
(* Bounds of the model.                                                    *)
(***************************************************************************)
\* longest list of usernames handed to the batch step
MaxUsers == 2
\* longest text tried as an argument of validate_username
MaxStrLen == 3
\* longest collection of records handed to rank_users
MaxRecords == 3

(***************************************************************************)
(* Python values.  Every value is a record of one shape so that values of  *)
(* different Python types can be told apart (and compared for equality):   *)
(*   kind   the Python type: "str", "int", "NoneType", "list", "dict"      *)
(*   s      the characters of a str                                        *)
(*   n      the number of an int                                           *)
(*   items  the elements of a list                                         *)
(*   d      the items of a dict, a set of <<key, value>> pairs             *)
(***************************************************************************)
PyStr(chars) == [kind |-> "str", s |-> chars, n |-> 0, items |-> <<>>, d |-> {}]
PyInt(k) == [kind |-> "int", s |-> <<>>, n |-> k, items |-> <<>>, d |-> {}]
PyNone == [kind |-> "NoneType", s |-> <<>>, n |-> 0, items |-> <<>>, d |-> {}]
PyList(elems) == [kind |-> "list", s |-> <<>>, n |-> 0, items |-> elems, d |-> {}]
PyDict(pairs) == [kind |-> "dict", s |-> <<>>, n |-> 0, items |-> <<>>, d |-> pairs]

\* Python truth value testing (bool(x)), as `not username` and `if badges` use it.
Truthy(x) ==
  CASE x.kind = "str" -> x.s # <<>>
    [] x.kind = "int" -> x.n # 0
    [] x.kind = "list" -> x.items # <<>>
    [] x.kind = "dict" -> x.d # {}
    [] OTHER -> FALSE

\* isinstance(x, str) / isinstance(x, list)
IsInstance(x, type) == x.kind = type

\* the literal "N/A"
NA == PyStr(<<"N", "/", "A">>)

(***************************************************************************)
(* validate_username (lines 32-35): TRUE when the call raises              *)
(* ValidationError, FALSE when it returns.                                 *)
(***************************************************************************)
validate_username_truthy_only(username) == ~Truthy(username)

validate_username_accept_all(username) == FALSE

validate_username(username) ==
  ~Truthy(username) \/ ~IsInstance(username, "str")

(***************************************************************************)
(* dict.get(key, default)                                                  *)
(***************************************************************************)
HasKey(x, key) == \E p \in x.d : p[1] = key

Get(x, key, default) ==
  IF HasKey(x, key) THEN (CHOOSE p \in x.d : p[1] = key)[2] ELSE default

(***************************************************************************)
(* What the HTTP collaborator does with one GET (lines 51-58):             *)
(*   "RequestException"  requests.get raises (connection, timeout)         *)
(*   "HTTPError"         raise_for_status raises (non-success status)      *)
(*   "JSONDecodeError"   response.json() cannot decode the body            *)
(*   "ok"                response.json() returns body                      *)
(***************************************************************************)
Response(status, body) == [status |-> status, body |-> body]

Failures ==
  { Response(st, PyNone) : st \in {"RequestException", "HTTPError", "JSONDecodeError"} }

\* what a call returns or raises: exc = "none" when it returns val
NotCalled == [exc |-> "pending", msg |-> "", user |-> PyNone, val |-> PyNone]

Returned(val) == [exc |-> "none", msg |-> "", user |-> PyNone, val |-> val]

Raised(exc, msg, user) == [exc |-> exc, msg |-> msg, user |-> user, val |-> PyNone]

(***************************************************************************)
(* LeetcodeWrapper._request (lines 47-60) on the collaborator's response.  *)
(* The error response.json() raises is taken to be a json.JSONDecodeError, *)
(* as it is when requests decodes with the standard json module.           *)
(***************************************************************************)
_request(resp) ==
  CASE resp.status = "HTTPError" -> Raised("APIError", "HTTP error occurred", PyNone)
    [] resp.status = "RequestException" -> Raised("APIError", "Request error occurred", PyNone)
    [] resp.status = "JSONDecodeError" -> Raised("APIError", "Failed to parse JSON response", PyNone)
    [] OTHER -> Returned(resp.body)

\* the three lookups of fetch_user_data, in the order it issues them (lines 79-81)
Lookups == <<"profile", "badges", "solved">>

\* sep.join(names) for a list of str (line 93)
RECURSIVE Join(_, _)
Join(sep, names) ==
  IF names = <<>> THEN <<>>
  ELSE IF Len(names) = 1 THEN names[1].s
  ELSE names[1].s \o sep \o Join(sep, Tail(names))

(***************************************************************************)
(* Lines 83-95 of fetch_user_data: the record built from the three decoded *)
(* payloads.  dict.get on a payload that is no dict raises AttributeError, *)
(* str.join on a name that is no str raises TypeError.                     *)
(***************************************************************************)
user_data(username, profile, solved_problems, Badges) ==
  PyDict({ <<"Username", username>>,
           <<"Rating", Get(profile, "reputation", NA)>>,
           <<"Problems Solved", Get(solved_problems, "solvedProblem", NA)>>,
           <<"Badges", Badges>>,
           <<"Ranking", Get(profile, "ranking", NA)>> })

build_user_data(username, profile, badges, solved_problems) ==
  IF ~IsInstance(profile, "dict") \/ ~IsInstance(solved_problems, "dict")
  THEN Raised("AttributeError", "object has no attribute 'get'", PyNone)
  ELSE IF ~Truthy(badges)
  THEN Returned(user_data(username, profile, solved_problems, NA))
  ELSE IF ~IsInstance(badges, "dict")
  THEN Raised("AttributeError", "object has no attribute 'get'", PyNone)
  ELSE IF ~IsInstance(Get(badges, "badges", PyNone), "list")
  THEN Returned(user_data(username, profile, solved_problems, NA))
  ELSE LET entries == Get(badges, "badges", PyList(<<>>)).items
           badge_names == [i \in 1..Len(entries) |-> Get(entries[i], "displayName", NA)]
       IN IF \E i \in 1..Len(entries) : ~IsInstance(entries[i], "dict")
          THEN Raised("AttributeError", "object has no attribute 'get'", PyNone)
          ELSE IF \E i \in 1..Len(entries) : ~IsInstance(badge_names[i], "str")
          THEN Raised("TypeError", "sequence item: expected str instance", PyNone)
          ELSE Returned(user_data(username, profile, solved_problems,
                                  PyStr(Join(<<",", " ">>, badge_names))))

\* `except APIError as e: raise APIError(f"Failed to fetch data for {username}: {e}")`
wrap_api_error(username, e) == Raised("APIError", e.msg, username)

(***************************************************************************)
(* fetch_user_data (lines 75-97) run on the responses received so far:     *)
(* at = "done" with the call's outcome, or the lookup it is blocked on.    *)
(***************************************************************************)
Blocked(lookup) == [at |-> lookup, outcome |-> Returned(PyNone)]

Done(outcome) == [at |-> "done", outcome |-> outcome]

\* fetch_user_data with the failures of the lookups in `optional` absorbed as None
fetch_tolerating(username, got, optional) ==
  LET fatal == { i \in 1..Len(got) : i \notin optional /\ _request(got[i]).exc # "none" }
      payload(i) == IF _request(got[i]).exc # "none" THEN PyNone ELSE _request(got[i]).val
  IN IF validate_username(username)
     THEN Done(Raised("ValidationError", "Username must be a non-empty string", PyNone))
     ELSE IF fatal # {}
     THEN Done(wrap_api_error(username, _request(got[CHOOSE i \in fatal : TRUE])))
     ELSE IF Len(got) < Len(Lookups)
     THEN Blocked(Lookups[Len(got) + 1])
     ELSE Done(build_user_data(username, payload(1), payload(2), payload(3)))

fetch_user_data_badges_optional(username, got) == fetch_tolerating(username, got, {2})

fetch_user_data_solved_optional(username, got) == fetch_tolerating(username, got, {3})

fetch_user_data(username, got) ==
  IF validate_username(username)
  THEN Done(Raised("ValidationError", "Username must be a non-empty string", PyNone))
  ELSE IF \E i \in 1..Len(got) : _request(got[i]).exc # "none"
  THEN LET i == CHOOSE i \in 1..Len(got) : _request(got[i]).exc # "none"
       IN Done(wrap_api_error(username, _request(got[i])))
  ELSE IF Len(got) < Len(Lookups)
  THEN Blocked(Lookups[Len(got) + 1])
  ELSE Done(build_user_data(username, _request(got[1]).val, _request(got[2]).val,
                            _request(got[3]).val))

(***************************************************************************)
(* sorted(data, key=lambda x: x.get(field, 0), reverse=True), lines        *)
(* 102-103.  list.sort compares keys with <; int and str keys do not       *)
(* compare with each other (TypeError).  With reverse=True CPython         *)
(* reverses the list, sorts it ascending and stably (binary insertion,     *)
(* each element placed after the elements not greater than it), and        *)
(* reverses the result.                                                    *)
(***************************************************************************)
Ord(c) ==
  CASE c = " " -> 32 [] c = "," -> 44 [] c = "/" -> 47 [] c = "A" -> 65
    [] c = "G" -> 71 [] c = "N" -> 78 [] c = "a" -> 97 [] c = "b" -> 98
    [] c = "c" -> 99 [] c = "d" -> 100 [] OTHER -> 101

RECURSIVE StrLess(_, _)
StrLess(a, b) ==
  IF b = <<>> THEN FALSE
  ELSE IF a = <<>> THEN TRUE
  ELSE IF Ord(Head(a)) # Ord(Head(b)) THEN Ord(Head(a)) < Ord(Head(b))
  ELSE StrLess(Tail(a), Tail(b))

\* a < b is defined (raises no TypeError)
Orderable(a, b) == a.kind = b.kind /\ a.kind \in {"int", "str"}

\* a < b for orderable a and b
Less(a, b) == IF a.kind = "int" THEN a.n < b.n ELSE StrLess(a.s, b.s)

Key(x, field) == Get(x, field, PyInt(0))

Reverse(seq) == [i \in 1..Len(seq) |-> seq[Len(seq) + 1 - i]]

InsertAt(seq, pos, x) ==
  SubSeq(seq, 1, pos - 1) \o <<x>> \o SubSeq(seq, pos, Len(seq))

RECURSIVE SortAscending(_, _)
SortAscending(data, field) ==
  IF data = <<>> THEN <<>>
  ELSE LET run == SortAscending(SubSeq(data, 1, Len(data) - 1), field)
           x == data[Len(data)]
           notGreater == { i \in 1..Len(run) : ~Less(Key(x, field), Key(run[i], field)) }
       IN InsertAt(run, Cardinality(notGreater) + 1, x)

sorted_unstable(data, field) ==
  IF \E i, j \in 1..Len(data) : i # j /\ ~Orderable(Key(data[i], field), Key(data[j], field))
  THEN Raised("TypeError", "'<' not supported between instances", PyNone)
  ELSE Returned(PyList(Reverse(SortAscending(data, field))))

sorted(data, field) ==
  IF \E i, j \in 1..Len(data) : i # j /\ ~Orderable(Key(data[i], field), Key(data[j], field))
  THEN Raised("TypeError", "'<' not supported between instances", PyNone)
  ELSE Returned(PyList(Reverse(SortAscending(Reverse(data), field))))

(***************************************************************************)
(* rank_users (lines 100-104): the pair of views, or the TypeError of the  *)
(* first sort that raises.                                                 *)
(***************************************************************************)
rank_users(data) ==
  LET sorted_by_rating == sorted(data, "Rating")
      sorted_by_solved == sorted(data, "Problems Solved")
  IN IF sorted_by_rating.exc # "none" THEN sorted_by_rating
     ELSE IF sorted_by_solved.exc # "none" THEN sorted_by_solved
     ELSE Returned(PyList(<<sorted_by_rating.val, sorted_by_solved.val>>))

(***************************************************************************)
(* State.                                                                  *)
(*   usernames  the list main hands to the batch step (line 140-149)       *)
(*   pc         where main is: "submit" (line 160), "collect" (161-167),   *)
(*              "unwind" (an exception is leaving the with block),         *)
(*              "display" (169), "ranked" (after 178), "crashed"           *)
(*   submitted  how many futures executor.submit has created               *)
(*   collected  how many futures the for loop of line 161 has consumed     *)
(*   task       per future: st ("unsubmitted", "pending", the lookup it is *)
(*              blocked on, "done"), the responses got so far, the outcome *)
(*              the future holds (result None, no exception, until the     *)
(*              call is done), the number of lookups issued, and the       *)
(*              lookup that failed with its cause, "none" if none did      *)
(*   results    the list of line 158                                       *)
(*   origin     for each element of results, the future it came from       *)
(*   reported   the failures printed by lines 165 and 167                  *)
(*   doneOrder  the futures in the order their calls completed             *)
(*   uncaught   the exception that left main, "none" if none did           *)
(*   ranked     what rank_users returned or raised at line 178             *)
(*   arg, ret   argument and outcome of a function called on its own       *)
(***************************************************************************)
VARIABLES usernames, pc, submitted, collected, task, results, origin, reported,
          doneOrder, uncaught, ranked, arg, ret

vars == <<usernames, pc, submitted, collected, task, results, origin, reported,
          doneOrder, uncaught, ranked, arg, ret>>

batchVars == <<usernames, pc, submitted, collected, task, results, origin, reported,
               doneOrder, uncaught, ranked>>

\* sequences over S of length at most n
SeqsUpTo(S, n) == UNION { [1..k -> S] : k \in 0..n }

(***************************************************************************)
(* Inputs.  main strips every token it reads (lines 144, 149): manual      *)
(* entry gives a non-empty list whose tokens may be empty, a file gives a  *)
(* possibly empty list of non-empty tokens.  The lists tried are the lists *)
(* over the empty token and one name, and one list of two different names. *)
(***************************************************************************)
Tokens == { PyStr(<<>>), PyStr(<<"a">>) }

UsernameLists ==
  SeqsUpTo(Tokens, MaxUsers) \cup { <<PyStr(<<"a">>), PyStr(<<"b">>)>> }

Badge(name) == PyDict({<<"displayName", name>>})

ProfileBodies ==
  { PyDict({<<"reputation", PyInt(2)>>, <<"ranking", PyInt(1)>>}),
    PyDict({}) }

BadgesBodies ==
  { PyDict({<<"badges", PyList(<<Badge(PyStr(<<"G">>)), PyDict({})>>)>>}),
    PyDict({<<"badges", PyNone>>}),
    PyList(<<PyInt(1)>>) }

SolvedBodies ==
  { PyDict({<<"solvedProblem", PyInt(3)>>}),
    PyDict({}),
    PyNone }

Bodies(lookup) ==
  CASE lookup = "profile" -> ProfileBodies
    [] lookup = "badges" -> BadgesBodies
    [] OTHER -> SolvedBodies

Responses(lookup) == Failures \cup { Response("ok", b) : b \in Bodies(lookup) }

NoTask ==
  [st |-> "unsubmitted", got |-> <<>>, outcome |-> Returned(PyNone), issued |-> 0,
   failed |-> "none", cause |-> "none"]

BatchInit(names) ==
  /\ usernames = names
  /\ pc = "submit"
  /\ submitted = 0
  /\ collected = 0
  /\ task = [i \in 1..Len(names) |-> NoTask]
  /\ results = <<>>
  /\ origin = <<>>
  /\ reported = <<>>
  /\ doneOrder = <<>>
  /\ uncaught = "none"
  /\ ranked = NotCalled

Init ==
  /\ \E names \in UsernameLists : BatchInit(names)
  /\ arg = PyNone
  /\ ret = NotCalled

(***************************************************************************)
(* The worker side: one fetch_user_data call per future.                   *)
(***************************************************************************)
\* the call of future i moves on with the responses `got`; a call that is done
\* drops its locals and leaves the outcome in the future
Advance(i, got) ==
  LET r == fetch_user_data(usernames[i], got)
      fails == { k \in 1..Len(got) : got[k].status # "ok" }
      k == CHOOSE k \in fails : TRUE
  IN /\ task' = [task EXCEPT ![i] =
                   [st |-> r.at,
                    got |-> IF r.at = "done" THEN <<>> ELSE got,
                    outcome |-> r.outcome,
                    issued |-> IF r.at = "done" THEN Len(got) ELSE Len(got) + 1,
                    failed |-> IF fails = {} THEN "none" ELSE Lookups[k],
                    cause |-> IF fails = {} THEN "none" ELSE got[k].status]]
     /\ doneOrder' = IF r.at = "done" THEN Append(doneOrder, i) ELSE doneOrder

\* a worker thread takes future i and runs the call up to its first lookup
Start(i) ==
  /\ task[i].st = "pending"
  /\ Advance(i, <<>>)
  /\ UNCHANGED <<usernames, pc, submitted, collected, results, origin, reported,
                 uncaught, ranked, arg, ret>>

\* the lookup future i is blocked on ends with resp
Respond(i, resp) ==
  /\ task[i].st \in {"profile", "badges", "solved"}
  /\ resp \in Responses(task[i].st)
  /\ Advance(i, Append(task[i].got, resp))
  /\ UNCHANGED <<usernames, pc, submitted, collected, results, origin, reported,
                 uncaught, ranked, arg, ret>>

(***************************************************************************)
(* main, lines 158-178.                                                    *)
(***************************************************************************)
\* line 160: executor.submit for the next username
Submit ==
  /\ pc = "submit"
  /\ submitted < Len(usernames)
  /\ submitted' = submitted + 1
  /\ task' = [task EXCEPT ![submitted + 1].st = "pending"]
  /\ UNCHANGED <<usernames, pc, collected, results, origin, reported, doneOrder,
                 uncaught, ranked, arg, ret>>

\* line 161: the dict is complete, the for loop begins
BeginCollect ==
  /\ pc = "submit"
  /\ submitted = Len(usernames)
  /\ pc' = "collect"
  /\ UNCHANGED <<usernames, submitted, collected, task, results, origin, reported,
                 doneOrder, uncaught, ranked, arg, ret>>

\* `for future in futures`: a dict iterates in insertion order
FutureAtReversed(j) == Len(usernames) + 1 - j

FutureAt(j) == j

\* future.result() returns or raises only once the call is done
FutureDoneAlways(i) == TRUE

FutureDone(i) == task[i].st = "done"

Collecting(i) ==
  /\ pc = "collect"
  /\ collected < Len(usernames)
  /\ i = FutureAt(collected + 1)
  /\ FutureDone(i)

\* line 163: results.append(future.result())
CollectRecordDropped ==
  \E i \in 1..Len(usernames) :
    /\ Collecting(i)
    /\ task[i].outcome.exc = "none"
    /\ collected' = collected + 1
    /\ UNCHANGED <<usernames, pc, submitted, task, results, origin, reported, doneOrder,
                   uncaught, ranked, arg, ret>>

CollectRecord ==
  \E i \in 1..Len(usernames) :
    /\ Collecting(i)
    /\ task[i].outcome.exc = "none"
    /\ results' = Append(results, task[i].outcome.val)
    /\ origin' = Append(origin, i)
    /\ collected' = collected + 1
    /\ UNCHANGED <<usernames, pc, submitted, task, reported, doneOrder, uncaught,
                   ranked, arg, ret>>

\* lines 164-167: the two except clauses print the failure
CollectFailure ==
  \E i \in 1..Len(usernames) :
    /\ Collecting(i)
    /\ task[i].outcome.exc \in {"APIError", "ValidationError"}
    /\ reported' = Append(reported, [future |-> i, user |-> usernames[i],
                                     e |-> task[i].outcome])
    /\ collected' = collected + 1
    /\ UNCHANGED <<usernames, pc, submitted, task, results, origin, doneOrder,
                   uncaught, ranked, arg, ret>>

\* any other exception of future.result() is caught by no clause and leaves the loop
CollectUncaught ==
  \E i \in 1..Len(usernames) :
    /\ Collecting(i)
    /\ task[i].outcome.exc \notin {"none", "APIError", "ValidationError"}
    /\ pc' = "unwind"
    /\ uncaught' = task[i].outcome.exc
    /\ UNCHANGED <<usernames, submitted, collected, task, results, origin, reported,
                   doneOrder, ranked, arg, ret>>

\* leaving the with block runs executor.shutdown(wait=True): every call is done
Shutdown ==
  /\ \A i \in 1..Len(usernames) : FutureDone(i)
  /\ \/ pc = "collect" /\ collected = Len(usernames) /\ pc' = "display"
     \/ pc = "unwind" /\ pc' = "crashed"
  /\ UNCHANGED <<usernames, submitted, collected, task, results, origin, reported,
                 doneOrder, uncaught, ranked, arg, ret>>

\* lines 169-178: the records are printed, then rank_users(results)
Rank ==
  /\ pc = "display"
  /\ ranked' = rank_users(results)
  /\ pc' = IF ranked'.exc = "none" THEN "ranked" ELSE "crashed"
  /\ uncaught' = ranked'.exc
  /\ UNCHANGED <<usernames, submitted, collected, task, results, origin, reported,
                 doneOrder, arg, ret>>

Next ==
  \/ Submit
  \/ BeginCollect
  \/ \E i \in 1..Len(usernames) : Start(i)
  \/ \E i \in 1..Len(usernames) : \E resp \in Responses(task[i].st) : Respond(i, resp)
  \/ CollectRecord
  \/ CollectFailure
  \/ CollectUncaught
  \/ Shutdown
  \/ Rank

Spec == Init /\ [][Next]_vars

(***************************************************************************)
(* validate_username and LeetcodeWrapper.__init__ (lines 32-45) called on  *)
(* their own, on texts and on values that are no text.                     *)
(***************************************************************************)
\* space, tab and a letter
Chars == {" ", "\t", "a"}

Texts == { PyStr(s) : s \in SeqsUpTo(Chars, MaxStrLen) }

NonTexts ==
  { PyNone, PyInt(0), PyInt(1), PyList(<<>>), PyList(<<PyStr(<<"a">>)>>), PyDict({}) }

InitValidate ==
  /\ BatchInit(<<>>)
  /\ arg \in Texts \cup NonTexts
  /\ ret = NotCalled

CallValidate ==
  /\ ret = NotCalled
  /\ ret' = IF validate_username(arg)
            THEN Raised("ValidationError", "Username must be a non-empty string", PyNone)
            ELSE Returned(PyNone)
  /\ UNCHANGED <<batchVars, arg>>

\* LeetcodeWrapper(username): validates, then keeps the username
Construct ==
  /\ ret = NotCalled
  /\ ret' = IF validate_username(arg)
            THEN Raised("ValidationError", "Username must be a non-empty string", PyNone)
            ELSE Returned(PyDict({<<"username", arg>>}))
  /\ UNCHANGED <<batchVars, arg>>

NextValidate == CallValidate \/ Construct

SpecValidate == InitValidate /\ [][NextValidate]_vars

(***************************************************************************)
(* rank_users (lines 100-104) called on its own, on collections of the     *)
(* records fetch_user_data builds (lines 83-89): Rating and Problems       *)
(* Solved are the payload's number, or "N/A" when the payload lacks it.    *)
(***************************************************************************)
Scores == { PyInt(1), PyInt(2) }

ProfilePayloads ==
  { PyDict({}) } \cup { PyDict({<<"reputation", v>>}) : v \in Scores }

SolvedPayloads ==
  { PyDict({}) } \cup { PyDict({<<"solvedProblem", v>>}) : v \in Scores }

\* the i-th record of a collection carries the i-th username: "a", "aa", ...
RankName(i) == PyStr([k \in 1..i |-> "a"])

\* the collection fetch_user_data builds from the payloads ps[i] = <<profile, solved>>
Collection(ps) ==
  [i \in DOMAIN ps |-> user_data(RankName(i), ps[i][1], ps[i][2], NA)]

InitRank ==
  /\ BatchInit(<<>>)
  /\ \E n \in 0..MaxRecords :
       \E ps \in [1..n -> ProfilePayloads \X SolvedPayloads] :
         arg = PyList(Collection(ps))
  /\ ret = NotCalled

CallRank ==
  /\ ret = NotCalled
  /\ ret' = rank_users(arg.items)
  /\ UNCHANGED <<batchVars, arg>>

NextRank == CallRank

SpecRank == InitRank /\ [][NextRank]_vars

(***************************************************************************)
(* Properties.                                                             *)
(***************************************************************************)
Range(seq) == { seq[p] : p \in 1..Len(seq) }

Futures == 1..Len(usernames)

\* the for loop of line 161 has run over every future
LoopFinished == pc # "submit" /\ collected = Len(usernames)

\* how often future i is in results, and how often it is reported as a failure
Records(i) == Cardinality({ p \in 1..Len(origin) : origin[p] = i })

Reports(i) == Cardinality({ p \in 1..Len(reported) : reported[p].future = i })

\* C1: once the collection loop has finished over a non-empty list, records plus
\* reported failures number the identities, and every identity is exactly one of
\* the two: a record in results or a reported failure.
C1_AccountedOnce ==
  (LoopFinished /\ usernames # <<>>) =>
    /\ Len(results) + Len(reported) = Len(usernames)
    /\ \A i \in Futures : Records(i) + Reports(i) = 1
    /\ \A p \in 1..Len(reported) : reported[p].e.exc \in {"APIError", "ValidationError"}

C1_Witness ==
  /\ LoopFinished
  /\ Len(usernames) = MaxUsers
  /\ usernames[1] = usernames[MaxUsers]
  /\ results # <<>>
  /\ reported # <<>>

\* C2: the failure of one identity's call, whatever its lookups' outcomes, never
\* aborts the batch step, and every identity whose call produced a record has it
\* in results once main is past the batch step.
C2_TaskIsolation ==
  /\ pc # "unwind"
  /\ (pc \in {"display", "ranked", "crashed"}) =>
       \A i \in Futures : task[i].outcome.exc = "none" => i \in Range(origin)

C9_MandatoryLookupFatal ==
  \A i \in Futures :
    task[i].failed \in {"profile", "solved"} =>
      /\ task[i].st = "done"
      /\ task[i].outcome.exc = "APIError"
      /\ task[i].outcome.user = usernames[i]
      /\ task[i].outcome.msg = _request(Response(task[i].cause, PyNone)).msg
      /\ Records(i) = 0
      /\ LoopFinished => Reports(i) = 1

C9_Witness ==
  /\ LoopFinished
  /\ \E i, j \in Futures :
       /\ task[i].failed = "profile" /\ Reports(i) = 1
       /\ task[j].failed = "solved" /\ Reports(j) = 1

Before(seq, a, b) ==
  \E p, q \in 1..Len(seq) : p < q /\ seq[p] = a /\ seq[q] = b

\* C6 as claimed: when two identities both have a record and the later-submitted
\* one completed first, its record is placed before the other's.
C6_CompletionOrder ==
  LoopFinished =>
    \A i, j \in Futures :
      (i < j /\ Records(i) = 1 /\ Records(j) = 1 /\ Before(doneOrder, j, i)) =>
        Before(origin, j, i)

\* C6 as amended: results keeps the submission order: of two identities that both
\* have a record, the earlier-submitted one's record comes first, also when the
\* later-submitted one completed first.
C6_SubmissionOrder ==
  \A p, q \in 1..Len(origin) : p < q => origin[p] < origin[q]

C6_Witness ==
  /\ LoopFinished
  /\ Before(doneOrder, 2, 1)
  /\ Before(origin, 1, 2)

PastBatch == pc \in {"display", "ranked"} \/ ranked # NotCalled

\* C7: when main is past the with block (displaying, ranking or after ranking),
\* every future has been consumed and no call is pending, running or blocked on
\* a lookup.
C7_CompleteBeforeRanking ==
  PastBatch =>
    /\ collected = Len(usernames)
    /\ \A i \in Futures : task[i].st = "done"

C7_Witness ==
  /\ pc = "ranked"
  /\ Len(usernames) = MaxUsers
  /\ \A i \in Futures : task[i].issued = Len(Lookups)

\* C10: no lookup is ever issued for the empty identity, its call ends in a
\* ValidationError and it is reported with that ValidationError; for the empty
\* list nothing is issued, recorded or reported.
C10_ValidationFirst ==
  /\ \A i \in Futures :
       usernames[i] = PyStr(<<>>) =>
         /\ task[i].issued = 0
         /\ task[i].st \in {"unsubmitted", "pending", "done"}
         /\ task[i].st = "done" => task[i].outcome.exc = "ValidationError"
         /\ Records(i) = 0
         /\ \A p \in 1..Len(reported) :
              reported[p].future = i => reported[p].e.exc = "ValidationError"
         /\ LoopFinished => Reports(i) = 1
  /\ usernames = <<>> => (results = <<>> /\ reported = <<>> /\ pc # "unwind")

C10_Witness ==
  /\ LoopFinished
  /\ \E i, j \in Futures :
       /\ usernames[i] = PyStr(<<>>) /\ Reports(i) = 1
       /\ task[j].issued = Len(Lookups)

Whitespace == {" ", "\t"}

WhitespaceOnly(x) ==
  x.kind = "str" /\ x.s # <<>> /\ \A k \in 1..Len(x.s) : x.s[k] \in Whitespace

\* C5 as claimed: validate_username raises ValidationError exactly for the empty
\* text, the whitespace-only texts and the values that are no text.
C5_RejectsBlank ==
  ret # NotCalled =>
    (ret.exc = "ValidationError" <=>
       (arg.kind # "str" \/ arg.s = <<>> \/ WhitespaceOnly(arg)))

\* C5 as amended: validate_username raises ValidationError exactly for the empty
\* text and the values that are no text; every other text, the whitespace-only
\* ones included, is accepted.
C5_RejectsEmptyOrNonText ==
  ret # NotCalled =>
    /\ ret.exc \in {"none", "ValidationError"}
    /\ ret.exc = "ValidationError" <=> (arg.kind # "str" \/ arg.s = <<>>)

C5_Witness == ret # NotCalled /\ ret.exc = "none" /\ WhitespaceOnly(arg)

\* the views of a call that returned
View(k) == ret.val.items[k].items

Fields == <<"Rating", "Problems Solved">>

Unavailable(x, field) == Get(x, field, NA) = NA

Position(seq, x) == CHOOSE p \in 1..Len(seq) : seq[p] = x

\* C4: when some records carry "N/A" in Rating or Problems Solved and others carry
\* numbers, rank_users returns both views and in each view no record with an
\* unavailable value stands above a record with a number.
C4_UnavailableLast ==
  (/\ ret # NotCalled
   /\ \E k \in 1..Len(Fields) : \E x, y \in Range(arg.items) :
        Unavailable(x, Fields[k]) /\ ~Unavailable(y, Fields[k])) =>
    /\ ret.exc = "none"
    /\ \A k \in 1..Len(Fields) : \A p, q \in 1..Len(View(k)) :
         (Unavailable(View(k)[p], Fields[k]) /\ ~Unavailable(View(k)[q], Fields[k])) => q < p

Numeric(data) ==
  \A p \in 1..Len(data) : \A k \in 1..Len(Fields) : Key(data[p], Fields[k]).kind = "int"

\* C8: for records whose Rating and Problems Solved are numbers, each view is a
\* permutation of the input, in descending order of its field, and records with
\* equal values keep the relative order they had in the input.
C8_StableDescending ==
  (ret # NotCalled /\ Numeric(arg.items)) =>
    /\ ret.exc = "none"
    /\ \A k \in 1..Len(Fields) :
         /\ Len(View(k)) = Len(arg.items)
         /\ Range(View(k)) = Range(arg.items)
         /\ \A p, q \in 1..Len(View(k)) :
              p < q =>
                /\ Key(View(k)[p], Fields[k]).n >= Key(View(k)[q], Fields[k]).n
                /\ Key(View(k)[p], Fields[k]) = Key(View(k)[q], Fields[k]) =>
                     Position(arg.items, View(k)[p]) < Position(arg.items, View(k)[q])

C8_Witness ==
  /\ ret # NotCalled
  /\ Numeric(arg.items)
  /\ Len(arg.items) = MaxRecords
  /\ View(1) # arg.items
  /\ \E p, q \in 1..Len(View(1)) :
       p < q /\ Key(View(1)[p], "Rating") = Key(View(1)[q], "Rating")

====
